---- MODULE Spec2Model ----
(***************************************************************************)
(* MyNewsApp: the root App component (initial route from the auth state),  *)
(* the Trending screen (news fetch) and the Browse screen (category        *)
(* toggles, preference persistence, preference load, per-selection news    *)
(* fetch), together with the two remote collaborators they talk to: the    *)
(* document store holding preference documents and the news API.           *)
(*                                                                         *)
(* Every awaited collaborator call is a separate step: the handler runs up *)
(* to the await in one action and its continuation runs in another, so     *)
(* that overlapping calls interleave as the JavaScript event loop lets     *)
(* them.                                                                   *)
(***************************************************************************)
EXTENDS Naturals, Sequences, FiniteSets, TLC

\* ---------------------------------------------------------------- bounds

\* User gestures (category presses and pulls to refresh) in one run.
MaxGestures == 2
\* A gesture is made only while fewer than this many asynchronous
\* invocations (saves, loads, news fetches) are in flight.
MaxInFlight == 2
\* Longest article list the news API returns for a category.
MaxReturned == 22

\* ------------------------------------------------------------- constants

\* browse.tsx:167 and part_000:112, the end index of slice(0, 20).
MaxArticles == 20
\* browse.tsx:35, useState<string | null>(null): the falsy "no document" id.
Null == 0

\* browse.tsx:45-55, the first two of the nine category labels.
categories == <<"Corporate/Industry Events", "Ideas Festivals">>

\* The signed-in user's $id.
UserId == "u1"

\* ---------------------------------------------------------------- helpers

Range(s) == {s[i] : i \in 1..Len(s)}

Min(a, b) == IF a < b THEN a ELSE b

\* Array.prototype.includes
Includes(arr, x) == \E i \in 1..Len(arr) : arr[i] = x

\* Array.prototype.filter(c => c !== x)
FilterNot(arr, x) == SelectSeq(arr, LAMBDA c : c # x)

\* Array.prototype.slice(start, end) for 0 <= start <= end
Slice(arr, start, end) == SubSeq(arr, start + 1, Min(end, Len(arr)))

\* An object with no own keys, {}.
EmptyObject == [c \in {} |-> <<>>]

\* obj[key] = value
SetKey(obj, key, value) ==
    [k \in (DOMAIN obj) \cup {key} |-> IF k = key THEN value ELSE obj[k]]

\* Replace element i of a sequence.
SetAt(s, i, v) == [s EXCEPT ![i] = v]

\* Remove element i of a sequence.
RemoveAt(s, i) == SubSeq(s, 1, i - 1) \o SubSeq(s, i + 1, Len(s))

\* The article list of n articles, newest first: n, n-1, ..., 1.
Articles(n) == [i \in 1..n |-> n + 1 - i]

\* Outcomes of appwrite.getCurrentUser(): a user, null, or a rejection.
UserOutcomes == {"user", "null", "reject"}

\* Outcomes of a document-store write: a document, a resolution without a
\* document, or a rejection.
WriteOutcomes == {"ok", "undefined", "reject"}

\* ------------------------------------------------------------------ state

VARIABLES
    \* remote collaborators
    docs,               \* document store: the preference documents
    apiNews,            \* news API: category -> article list (some categories absent)
    \* AppwriteContext
    isLoggedIn,
    \* App (part_000:9-56)
    appIsLoading,       \* useState isLoading
    appUser,            \* how the initial getCurrentUser() settled, "pending" before
    initialRoute,       \* initialRoute handed to RouteStack, "none" while Loading is shown
    screen,             \* which screen component is mounted: "none", "Trending", "Browse"
    \* Trending (part_000:85-152)
    trendingUserData,
    trendingNewsData,
    trendingUserPc,     \* mount effect's getCurrentUser(): "idle", "pending", "done"
    trendingFetchPc,    \* fetchNewsData: "idle", "pending", "done", "rejected"
    \* Browse (browse.tsx:28-263)
    userData,
    newsData,
    selectedCategories,
    documentId,
    isLoading,
    isRefreshing,
    error,
    mountPc,            \* mount effect's getCurrentUser(): "idle", "pending", "done"
    saves,              \* saveCategoriesToDatabase invocations in flight
    loads,              \* loadSavedCategories invocations in flight
    fetches,            \* fetchNewsData invocations in flight
    \* history
    presses,            \* category presses so far
    refreshes,          \* refresh gestures so far
    documentIdFrom,     \* which call last set documentId: "initial", "create", "load"
    saveFailed,         \* some toggle's persistence ended without a stored document
    rejectedLoads,      \* loadSavedCategories calls that ended in the catch
    rejectedFetches     \* fetchNewsData calls that ended in the catch

remoteVars == <<docs, apiNews>>
appVars == <<appIsLoading, appUser, initialRoute>>
trendingVars == <<trendingUserData, trendingNewsData, trendingUserPc, trendingFetchPc>>
browseVars == <<userData, newsData, selectedCategories, documentId, isLoading,
                isRefreshing, error, mountPc, saves, loads, fetches>>
historyVars == <<presses, refreshes, documentIdFrom, saveFailed, rejectedLoads,
                 rejectedFetches>>
vars == <<remoteVars, isLoggedIn, screen, appVars, trendingVars, browseVars, historyVars>>

\* ------------------------------------------------------------------- Init

\* The article list the news API holds for a category, when it holds one:
\* more than the screens keep for the first category, fewer for the second.
ArticlesFor(category) ==
    IF category = categories[1] THEN Articles(MaxReturned) ELSE Articles(MaxArticles - 1)

\* The news API's content: articles for every category, or for the first
\* category only.
ApiContents ==
    {[c \in D |-> ArticlesFor(c)] : D \in {{categories[1]}, Range(categories)}}

\* A preference document. "toggle" records which toggle's createpreferences
\* made it; 0 marks a document that existed before the run.
Document(id, userid, cats, toggle) ==
    [id |-> id, userid |-> userid, interested_categories |-> cats, toggle |-> toggle]

\* The store before the run: no document for the user, or one document left
\* by an earlier session.
InitialStores ==
    {{}, {Document(1, UserId, <<categories[2], categories[1]>>, 0)}}

\* browse.tsx:29-38, the useState initial values.
InitialSelectedCategories == <<>>
InitialDocumentId == Null
InitialNewsData == EmptyObject

\* The AppwriteContext's initial isLoggedIn.
InitialIsLoggedIn == FALSE

Init ==
    /\ docs \in InitialStores
    /\ apiNews \in ApiContents
    /\ isLoggedIn = InitialIsLoggedIn
    /\ appIsLoading = TRUE
    /\ appUser = "pending"
    /\ initialRoute = "none"
    /\ screen = "none"
    /\ trendingUserData = FALSE
    /\ trendingNewsData = EmptyObject
    /\ trendingUserPc = "idle"
    /\ trendingFetchPc = "idle"
    /\ userData = FALSE
    /\ newsData = InitialNewsData
    /\ selectedCategories = InitialSelectedCategories
    /\ documentId = InitialDocumentId
    /\ isLoading = FALSE
    /\ isRefreshing = FALSE
    /\ error = "null"
    /\ mountPc = "idle"
    /\ saves = <<>>
    /\ loads = <<>>
    /\ fetches = <<>>
    /\ presses = 0
    /\ refreshes = 0
    /\ documentIdFrom = "initial"
    /\ saveFailed = FALSE
    /\ rejectedLoads = 0
    /\ rejectedFetches = 0

\* -------------------------------------------------------------------- App

\* part_000:53, initialRoute = {isLoggedIn ? 'Home' : 'Login'}
InitialRoute(loggedIn) == IF loggedIn THEN "Home" ELSE "Login"

\* part_000:45-55, what App renders: Loading while isLoading, else the
\* navigator with its initial route.
AppRender(loading, loggedIn) == IF loading THEN "none" ELSE InitialRoute(loggedIn)

\* AppThen without its if (response): any resolution logs the user in.
AppThenUnchecked(response, loggedIn) == TRUE

\* part_000:33-38, .then(response => ...): response is a user or null.
AppThen(response, loggedIn) ==
    IF response = "user" THEN TRUE ELSE loggedIn

\* part_000:39-42, .catch(_ => ...)
AppCatch(loggedIn) == FALSE

\* part_000:30-43: the initial getCurrentUser() settles.
AppGetCurrentUserSettles ==
    /\ appUser = "pending"
    /\ \E outcome \in UserOutcomes :
          /\ appUser' = outcome
          /\ appIsLoading' = FALSE
          /\ isLoggedIn' = IF outcome = "reject"
                              THEN AppCatch(isLoggedIn)
                              ELSE AppThen(outcome, isLoggedIn)
          /\ initialRoute' = AppRender(appIsLoading', isLoggedIn')
    /\ UNCHANGED <<remoteVars, screen, trendingVars, browseVars, historyVars>>

\* --------------------------------------------------------------- Trending

\* SliceArticles with the end index off by one.
SliceArticlesOffByOne(articles) == Slice(articles, 0, MaxArticles + 1)

\* part_000:112, articles.slice(0, 20)
SliceArticles(articles) == Slice(articles, 0, MaxArticles)

\* part_000:106-114, categoryData built from the response's entries.
TrendingCategoryData(response) ==
    [c \in DOMAIN response |-> SliceArticles(response[c])]

\* The Home route is shown and the user opens the Trending screen: both
\* effects run (part_000:90-101 and 103-121).
TrendingMount ==
    /\ initialRoute = "Home"
    /\ screen = "none"
    /\ screen' = "Trending"
    /\ trendingUserPc' = "pending"
    /\ trendingFetchPc' = "pending"
    /\ UNCHANGED <<remoteVars, isLoggedIn, appVars, trendingUserData,
                   trendingNewsData, browseVars, historyVars>>

\* part_000:91-100: getCurrentUser() settles; a rejection is unhandled.
TrendingGetCurrentUserSettles ==
    /\ trendingUserPc = "pending"
    /\ \E outcome \in UserOutcomes :
          /\ trendingUserPc' = "done"
          /\ IF outcome = "user"
                THEN isLoggedIn' = TRUE /\ trendingUserData' = TRUE
                ELSE UNCHANGED <<isLoggedIn, trendingUserData>>
    /\ UNCHANGED <<remoteVars, screen, appVars, trendingNewsData,
                   trendingFetchPc, browseVars, historyVars>>

\* part_000:108-118: getTrendingNewsFromAPI() settles.
TrendingFetchSettles ==
    /\ trendingFetchPc = "pending"
    /\ \E outcome \in {"ok", "null", "reject"} :
          CASE outcome = "ok" ->
                 /\ trendingNewsData' = TrendingCategoryData(apiNews)
                 /\ trendingFetchPc' = "done"
            [] outcome = "null" ->
                 /\ trendingNewsData' = EmptyObject
                 /\ trendingFetchPc' = "done"
            [] outcome = "reject" ->
                 /\ trendingFetchPc' = "rejected"
                 /\ UNCHANGED trendingNewsData
    /\ UNCHANGED <<remoteVars, isLoggedIn, screen, appVars, trendingUserData,
                   trendingUserPc, browseVars, historyVars>>

\* ------------------------------------------------- remote document store

\* The preference documents of a user.
DocumentsOf(userid) == {d \in docs : d.userid = userid}

\* createpreferences({userid, categories}): a new document under a fresh id.
\* Documents are never deleted, so the count gives the next free id.
CreatePreferences(userid, cats, toggle) ==
    docs \cup {Document(Cardinality(docs) + 1, userid, cats, toggle)}

\* savepreferences({documentid, userid, categories}): the document with
\* that id gets the new categories.
SavePreferences(documentid, userid, cats) ==
    {IF d.id = documentid
        THEN [d EXCEPT !.userid = userid, !.interested_categories = cats]
        ELSE d : d \in docs}

\* getpreferences({userid}): a document of the user, or null when there is
\* none. The store states no order, so any of the user's documents may be
\* the one returned.
GetPreferences(userid) == DocumentsOf(userid)

\* getCategoryNewsFromAPI([category]): a mapping holding the category when
\* the API has articles for it.
GetCategoryNewsFromAPI(category) ==
    [c \in {category} \cap DOMAIN apiNews |-> apiNews[c]]

\* ----------------------------------------------------------------- Browse

\* What no Browse step changes.
outsideBrowse == <<apiNews, appVars, trendingVars>>

\* The bound on the user's gestures.
GestureAllowed ==
    /\ presses + refreshes < MaxGestures
    /\ Len(saves) + Len(loads) + Len(fetches) < MaxInFlight

\* UpdatedCategories adding the category in front: [category, ...prev].
UpdatedCategoriesPrepend(prev, category) ==
    IF Includes(prev, category)
       THEN FilterNot(prev, category)
       ELSE <<category>> \o prev

\* browse.tsx:59-61, the updater's new list.
UpdatedCategories(prev, category) ==
    IF Includes(prev, category)
       THEN FilterNot(prev, category)
       ELSE Append(prev, category)

\* browse.tsx:66, the dependency list of useCallback(toggleCategory).
ToggleCategoryDeps == {}

\* browse.tsx:57-66 with 74: the documentId that saveCategoriesToDatabase
\* reads is the one of the render that created the memoized toggleCategory.
\* With a dependency list that never changes, that is the first render.
ClosureDocumentId ==
    IF "documentId" \in ToggleCategoryDeps THEN documentId ELSE InitialDocumentId

\* HasUserId without the check: every settled getCurrentUser() counts.
HasUserIdUnchecked(user) == TRUE

\* browse.tsx:71 and 109, if (user && user.$id)
HasUserId(user) == user = "user"

\* browse.tsx:74, if (documentId)
Truthy(id) == id # Null

\* LoadCatch resetting the selection and the document id.
LoadCatchReset(selected, id) == <<<<>>, Null>>

\* browse.tsx:124-126, loadSavedCategories' catch: logs, sets no state.
LoadCatch(selected, id) == <<selected, id>>

\* browse.tsx:171-173, fetchNewsData's catch: sets error, not newsData.
FetchCatch(data) == data

\* browse.tsx:157-161, a fetchNewsData invocation up to its first await.
NewFetch(cats) == [categories |-> cats, index |-> 1, categoryData |-> EmptyObject]

\* browse.tsx:179-182 after a render with a new selectedCategories array:
\* the effect starts fetchNewsData unless the selection is empty, and
\* fetchNewsData first sets isLoading and clears error (158-159).
FetchesAfter(cats) == IF Len(cats) > 0 THEN Append(fetches, NewFetch(cats)) ELSE fetches
IsLoadingAfter(cats) == IF Len(cats) > 0 THEN TRUE ELSE isLoading
ErrorAfter(cats, err) == IF Len(cats) > 0 THEN "null" ELSE err

\* browse.tsx:106-108, a loadSavedCategories invocation up to its first await.
NewLoad(refresh) == [pc |-> "getCurrentUser", refresh |-> refresh]

\* browse.tsx:68-70, a saveCategoriesToDatabase invocation up to its first
\* await. seenDocumentId and seenFrom record the screen's documentId state
\* at the press, next to the documentId the closure holds; user is what
\* getCurrentUser() gave; calls counts the createpreferences and
\* savepreferences calls made so far.
NewSave(category, updatedCategories) ==
    [category |-> category,
     categories |-> updatedCategories,
     documentId |-> ClosureDocumentId,
     seenDocumentId |-> documentId,
     seenFrom |-> documentIdFrom,
     press |-> presses + 1,
     pc |-> "getCurrentUser",
     user |-> "pending",
     calls |-> 0,
     callDocumentId |-> Null]

\* The Home route is shown and the user opens the Browse screen. The mount
\* effect (141-154) calls getCurrentUser(); the selection effect (156-182)
\* runs with the empty selection and starts nothing.
BrowseMount ==
    /\ initialRoute = "Home"
    /\ screen = "none"
    /\ screen' = "Browse"
    /\ mountPc' = "pending"
    /\ UNCHANGED <<docs, outsideBrowse, isLoggedIn, userData, newsData,
                   selectedCategories, documentId, isLoading, isRefreshing, error,
                   saves, loads, fetches, historyVars>>

\* browse.tsx:143-153: the mount effect's getCurrentUser() settles. With a
\* user, loadSavedCategories() starts; a rejection is unhandled.
BrowseMountUserSettles ==
    /\ mountPc = "pending"
    /\ mountPc' = "done"
    /\ \E outcome \in UserOutcomes :
          IF outcome = "user"
             THEN /\ isLoggedIn' = TRUE
                  /\ userData' = TRUE
                  /\ loads' = Append(loads, NewLoad(FALSE))
             ELSE UNCHANGED <<isLoggedIn, userData, loads>>
    /\ UNCHANGED <<docs, outsideBrowse, screen, newsData, selectedCategories,
                   documentId, isLoading, isRefreshing, error, saves, fetches,
                   historyVars>>

\* browse.tsx:129-132: pull to refresh, up to loadSavedCategories' await.
Refresh ==
    /\ screen = "Browse"
    /\ GestureAllowed
    /\ refreshes' = refreshes + 1
    /\ isRefreshing' = TRUE
    /\ loads' = Append(loads, NewLoad(TRUE))
    /\ UNCHANGED <<docs, outsideBrowse, isLoggedIn, screen, userData, newsData,
                   selectedCategories, documentId, isLoading, error, mountPc,
                   saves, fetches, presses, documentIdFrom, saveFailed, rejectedLoads, rejectedFetches>>

\* browse.tsx:133-138: onRefresh after loadSavedCategories returned (it
\* catches every rejection itself): setError(null), setIsRefreshing(false).
ErrorAfterLoad(load, err) == IF load.refresh THEN "null" ELSE err
IsRefreshingAfterLoad(load) == IF load.refresh THEN FALSE ELSE isRefreshing

\* browse.tsx:108-110: loadSavedCategories' getCurrentUser() resolves. With
\* a user, getpreferences is called; without one, the function returns.
LoadUserResolves(i) ==
    /\ loads[i].pc = "getCurrentUser"
    /\ \E user \in {"user", "null"} :
          IF HasUserId(user)
             THEN /\ loads' = SetAt(loads, i, [loads[i] EXCEPT !.pc = "getpreferences"])
                  /\ UNCHANGED <<error, isRefreshing>>
             ELSE /\ loads' = RemoveAt(loads, i)
                  /\ error' = ErrorAfterLoad(loads[i], error)
                  /\ isRefreshing' = IsRefreshingAfterLoad(loads[i])
    /\ UNCHANGED <<docs, outsideBrowse, isLoggedIn, screen, userData, newsData,
                   selectedCategories, documentId, isLoading, mountPc, saves, fetches,
                   historyVars>>

\* browse.tsx:108-114 and 124-126: loadSavedCategories' getCurrentUser() or
\* getpreferences rejects, and the catch runs.
LoadRejects(i) ==
    /\ loads' = RemoveAt(loads, i)
    /\ selectedCategories' = LoadCatch(selectedCategories, documentId)[1]
    /\ documentId' = LoadCatch(selectedCategories, documentId)[2]
    /\ error' = ErrorAfterLoad(loads[i], error)
    /\ isRefreshing' = IsRefreshingAfterLoad(loads[i])
    /\ rejectedLoads' = rejectedLoads + 1
    /\ UNCHANGED <<docs, outsideBrowse, isLoggedIn, screen, userData, newsData,
                   isLoading, mountPc, saves, fetches, presses, refreshes,
                   documentIdFrom, saveFailed, rejectedFetches>>

\* browse.tsx:116-122: the state set from getpreferences' response, a
\* document (found) or null, followed by the selection effect and by
\* onRefresh's epilogue.
LoadApply(i, cats, id) ==
    /\ selectedCategories' = cats
    /\ documentId' = id
    /\ documentIdFrom' = "load"
    /\ loads' = RemoveAt(loads, i)
    /\ fetches' = FetchesAfter(cats)
    /\ isLoading' = IsLoadingAfter(cats)
    /\ error' = ErrorAfter(cats, ErrorAfterLoad(loads[i], error))
    /\ isRefreshing' = IsRefreshingAfterLoad(loads[i])

\* browse.tsx:111-122: getpreferences resolves, with a document or null.
LoadPreferencesResolves(i) ==
    /\ loads[i].pc = "getpreferences"
    /\ IF GetPreferences(UserId) = {}
          THEN LoadApply(i, <<>>, Null)
          ELSE \E response \in GetPreferences(UserId) :
                  LoadApply(i, response.interested_categories, response.id)
    /\ UNCHANGED <<docs, outsideBrowse, isLoggedIn, screen, userData, newsData,
                   mountPc, saves, presses, refreshes, saveFailed, rejectedLoads, rejectedFetches>>

\* browse.tsx:57-70: a press on a category button. The updater computes the
\* new list and calls saveCategoriesToDatabase, which runs up to its first
\* await (getCurrentUser); the selection effect follows the render.
ToggleCategory(category) ==
    /\ screen = "Browse"
    /\ GestureAllowed
    /\ presses' = presses + 1
    /\ LET updatedCategories == UpdatedCategories(selectedCategories, category)
       IN  /\ selectedCategories' = updatedCategories
           /\ saves' = Append(saves, NewSave(category, updatedCategories))
           /\ fetches' = FetchesAfter(updatedCategories)
           /\ isLoading' = IsLoadingAfter(updatedCategories)
           /\ error' = ErrorAfter(updatedCategories, error)
    /\ UNCHANGED <<docs, outsideBrowse, isLoggedIn, screen, userData, newsData,
                   documentId, isRefreshing, mountPc, loads, refreshes,
                   documentIdFrom, saveFailed, rejectedLoads, rejectedFetches>>

\* browse.tsx:74-90: savepreferences with the closure's documentId when it
\* is set, createpreferences otherwise.
CallPersist(save) ==
    IF Truthy(save.documentId)
       THEN [save EXCEPT !.pc = "savepreferences",
                         !.calls = @ + 1,
                         !.callDocumentId = save.documentId]
       ELSE [save EXCEPT !.pc = "createpreferences",
                         !.calls = @ + 1]

\* browse.tsx:70-90 and 100-103: saveCategoriesToDatabase's getCurrentUser()
\* settles. With a user, savepreferences is called when the closure's
\* documentId is set and createpreferences otherwise; without one, or on a
\* rejection, the function ends.
SaveUserSettles(i) ==
    /\ saves[i].pc = "getCurrentUser"
    /\ \E outcome \in UserOutcomes :
          IF HasUserId(outcome)
             THEN /\ saves' = SetAt(saves, i, CallPersist([saves[i] EXCEPT !.user = outcome]))
                  /\ UNCHANGED saveFailed
             ELSE /\ saves' = RemoveAt(saves, i)
                  /\ saveFailed' = TRUE
    /\ UNCHANGED <<docs, outsideBrowse, isLoggedIn, screen, userData, newsData,
                   selectedCategories, documentId, isLoading, isRefreshing, error,
                   mountPc, loads, fetches, presses, refreshes, documentIdFrom,
                   rejectedLoads, rejectedFetches>>

\* browse.tsx:75-99: the createpreferences or savepreferences call settles.
\* A createpreferences response with an $id is stored as documentId.
PersistSettles(i) ==
    /\ saves[i].pc \in {"createpreferences", "savepreferences"}
    /\ saves' = RemoveAt(saves, i)
    /\ \E outcome \in WriteOutcomes :
          IF outcome = "ok"
             THEN /\ UNCHANGED saveFailed
                  /\ IF saves[i].pc = "createpreferences"
                        THEN /\ docs' = CreatePreferences(UserId, saves[i].categories,
                                                          saves[i].press)
                             /\ documentId' = Cardinality(docs) + 1
                             /\ documentIdFrom' = "create"
                        ELSE /\ docs' = SavePreferences(saves[i].callDocumentId, UserId,
                                                        saves[i].categories)
                             /\ UNCHANGED <<documentId, documentIdFrom>>
             ELSE /\ saveFailed' = TRUE
                  /\ UNCHANGED <<docs, documentId, documentIdFrom>>
    /\ UNCHANGED <<outsideBrowse, isLoggedIn, screen, userData, newsData,
                   selectedCategories, isLoading, isRefreshing, error, mountPc,
                   loads, fetches, presses, refreshes, rejectedLoads,
                   rejectedFetches>>

\* browse.tsx:164-170 and 174-176: one getCategoryNewsFromAPI([category])
\* of the loop resolves. After the last category, newsData is replaced.
FetchResolves(i) ==
    /\ LET f == fetches[i]
           category == f.categories[f.index]
           response == GetCategoryNewsFromAPI(category)
           categoryData ==
               IF category \in DOMAIN response
                  THEN SetKey(f.categoryData, category, SliceArticles(response[category]))
                  ELSE f.categoryData
       IN  IF f.index < Len(f.categories)
              THEN /\ fetches' = SetAt(fetches, i,
                         [f EXCEPT !.index = @ + 1, !.categoryData = categoryData])
                   /\ UNCHANGED <<newsData, isLoading>>
              ELSE /\ fetches' = RemoveAt(fetches, i)
                   /\ newsData' = categoryData
                   /\ isLoading' = FALSE
    /\ UNCHANGED <<docs, outsideBrowse, isLoggedIn, screen, userData,
                   selectedCategories, documentId, isRefreshing, error, mountPc,
                   saves, loads, historyVars>>

\* browse.tsx:165 and 171-176: a getCategoryNewsFromAPI call rejects.
FetchRejects(i) ==
    /\ fetches' = RemoveAt(fetches, i)
    /\ newsData' = FetchCatch(newsData)
    /\ error' = "Failed to fetch news"
    /\ isLoading' = FALSE
    /\ rejectedFetches' = rejectedFetches + 1
    /\ UNCHANGED <<docs, outsideBrowse, isLoggedIn, screen, userData,
                   selectedCategories, documentId, isRefreshing, mountPc,
                   saves, loads, presses, refreshes, documentIdFrom, saveFailed,
                   rejectedLoads>>

\* ------------------------------------------------------------------- Next

Next ==
    \/ AppGetCurrentUserSettles
    \/ TrendingMount
    \/ TrendingGetCurrentUserSettles
    \/ TrendingFetchSettles
    \/ BrowseMount
    \/ BrowseMountUserSettles
    \/ Refresh
    \/ \E i \in 1..Len(loads) : LoadUserResolves(i)
    \/ \E i \in 1..Len(loads) : LoadRejects(i)
    \/ \E i \in 1..Len(loads) : LoadPreferencesResolves(i)
    \/ \E c \in Range(categories) : ToggleCategory(c)
    \/ \E i \in 1..Len(saves) : SaveUserSettles(i)
    \/ \E i \in 1..Len(saves) : PersistSettles(i)
    \/ \E i \in 1..Len(fetches) : FetchResolves(i)
    \/ \E i \in 1..Len(fetches) : FetchRejects(i)

Spec == Init /\ [][Next]_vars

\* ----------------------------------------------------------------- claims

\* The first n elements of a list.
Prefix(list, n) == [k \in 1..n |-> list[k]]

\* No element occurs twice.
NoDuplicates(list) ==
    \A j, k \in 1..Len(list) : list[j] = list[k] => j = k

\* The elements of a list other than x, in the list's order.
Others(list, x) == SelectSeq(list, LAMBDA e : e # x)

\* The user had no preference document before the run.
NoPriorDocument == \A d \in docs : d.toggle # 0

\* A toggle has made its persistence call.
HasCalled(save) == save.calls > 0

\* C1: for a user with no existing preference document, the first toggle
\* issues createpreferences, and every toggle pressed after a create has
\* returned a document id (so that the screen's documentId holds it) issues
\* savepreferences carrying exactly that id, and no createpreferences.
C1_CreateOnceThenSave ==
    \A i \in 1..Len(saves) :
       (NoPriorDocument /\ HasCalled(saves[i])) =>
          /\ saves[i].press = 1 => saves[i].pc = "createpreferences"
          /\ (saves[i].seenFrom = "create" /\ saves[i].seenDocumentId # Null) =>
                /\ saves[i].pc = "savepreferences"
                /\ saves[i].callDocumentId = saves[i].seenDocumentId

\* C2: at most one preference document exists for the user in every
\* reachable state of the document store.
C2_AtMostOneDocument == Cardinality(DocumentsOf(UserId)) <= 1

\* C3: while the initial getCurrentUser call is pending no route is
\* selected; once it settles the initial route is Home if it resolved with
\* a user and Login if it resolved with null or rejected.
C3_InitialRoute ==
    /\ appUser = "pending" => initialRoute = "none"
    /\ appUser = "user" => initialRoute = "Home"
    /\ appUser \in {"null", "reject"} => initialRoute = "Login"

\* C3 witness: the call resolved with null and Login was selected.
C3_Witness == appUser = "null" /\ initialRoute = "Login"

\* C4 as claimed: every toggle triggers exactly one persistence call, so a
\* toggle's saveCategoriesToDatabase never ends having made none.
C4_ExactlyOneCall ==
    [][\A i \in 1..Len(saves) :
          saves' = RemoveAt(saves, i) => saves[i].calls = 1]_vars

\* C4 as amended: a toggle makes at most one persistence call: none while
\* its getCurrentUser is pending, and exactly one once getCurrentUser has
\* resolved with a user. An invocation whose getCurrentUser resolves with
\* null or rejects ends there, having made none.
C4_AtMostOneCall ==
    \A i \in 1..Len(saves) :
       /\ saves[i].user \in {"pending", "user"}
       /\ saves[i].calls = IF saves[i].user = "user" THEN 1 ELSE 0
       /\ saves[i].pc = "getCurrentUser" <=> saves[i].user = "pending"

\* C4 witness: a toggle's getCurrentUser resolved with a user and its one
\* persistence call is in flight, after an earlier toggle ended without one.
C4_Witness ==
    /\ saveFailed
    /\ docs = {}
    /\ \E i \in 1..Len(saves) : saves[i].calls = 1 /\ saves[i].press = 2

\* C5: when loadSavedCategories found a document, so that the screen's
\* documentId holds its id, a later toggle issues savepreferences with that
\* id and no createpreferences.
C5_LoadedDocumentUpdatedInPlace ==
    \A i \in 1..Len(saves) :
       (HasCalled(saves[i]) /\ saves[i].seenFrom = "load" /\ saves[i].seenDocumentId # Null) =>
          /\ saves[i].pc = "savepreferences"
          /\ saves[i].callDocumentId = saves[i].seenDocumentId

\* The category pressed in a step that is a press.
Pressed == saves'[Len(saves')].category

\* C6: toggleCategory(c) flips only the membership of c: a selected c is
\* removed, an unselected c is appended at the end, every other category
\* keeps its membership and relative order, and the list never holds a
\* duplicate.
C6_ToggleFlipsOne ==
    /\ []NoDuplicates(selectedCategories)
    /\ [][presses' = presses + 1 =>
            /\ Pressed \in Range(selectedCategories) <=> Pressed \notin Range(selectedCategories')
            /\ Pressed \notin Range(selectedCategories) =>
                  /\ Len(selectedCategories') = Len(selectedCategories) + 1
                  /\ selectedCategories'[Len(selectedCategories')] = Pressed
            /\ Others(selectedCategories', Pressed) = Others(selectedCategories, Pressed)]_vars

\* C6 witness: one press removed a category and left another selected, and
\* one press appended a category behind another.
C6_Witness ==
    /\ \E i \in 1..Len(saves) :
          /\ saves[i].category \notin Range(saves[i].categories)
          /\ saves[i].categories # <<>>
    /\ \E i \in 1..Len(saves) :
          /\ saves[i].category \in Range(saves[i].categories)
          /\ Len(saves[i].categories) > 1

\* C7: every article list stored in newsData, on Browse and on Trending, is
\* the prefix of the list the news API returned for that category, of
\* length min(N, 20).
C7_FirstTwenty ==
    /\ \A c \in DOMAIN newsData :
          /\ c \in DOMAIN apiNews
          /\ newsData[c] = Prefix(apiNews[c], Min(Len(apiNews[c]), MaxArticles))
    /\ \A c \in DOMAIN trendingNewsData :
          /\ c \in DOMAIN apiNews
          /\ trendingNewsData[c] = Prefix(apiNews[c], Min(Len(apiNews[c]), MaxArticles))

\* C7 witness: Browse holds a list cut to 20 from a longer one, next to a
\* shorter list kept whole.
C7_Witness ==
    /\ DOMAIN newsData = Range(categories)
    /\ \E c \in DOMAIN newsData : Len(apiNews[c]) > MaxArticles /\ Len(newsData[c]) = MaxArticles
    /\ \E c \in DOMAIN newsData : Len(apiNews[c]) < MaxArticles /\ newsData[c] = apiNews[c]

\* C8 as claimed: a rejected call resets the view state: a rejected news
\* fetch leaves newsData empty, and a rejected call of loadSavedCategories
\* leaves selectedCategories empty and documentId null.
C8_RejectionResets ==
    [][/\ rejectedFetches' # rejectedFetches => newsData' = EmptyObject
       /\ rejectedLoads' # rejectedLoads =>
             (selectedCategories' = <<>> /\ documentId' = Null)]_vars

\* C8 as amended: a rejected call leaves the view state as it was: a
\* rejected news fetch leaves newsData unchanged, and a rejected call of
\* loadSavedCategories leaves selectedCategories and documentId unchanged.
C8_RejectionKeepsState ==
    [][/\ rejectedFetches' # rejectedFetches => newsData' = newsData
       /\ rejectedLoads' # rejectedLoads =>
             (selectedCategories' = selectedCategories /\ documentId' = documentId)]_vars

\* C8 witness: after a rejected load and a rejected fetch the screen still
\* holds a selection, a document id and news.
C8_Witness ==
    /\ rejectedLoads > 0
    /\ rejectedFetches > 0
    /\ selectedCategories # <<>>
    /\ documentId # Null
    /\ DOMAIN newsData # {}

\* C9: once every persistence call has completed successfully and nothing
\* is in flight, the categories stored remotely for the user (whatever
\* document getpreferences may return) equal the locally selected ones.
C9_RemoteEqualsLocal ==
    (presses > 0 /\ saves = <<>> /\ loads = <<>> /\ ~saveFailed) =>
       /\ GetPreferences(UserId) # {}
       /\ \A d \in GetPreferences(UserId) : d.interested_categories = selectedCategories

\* What a fetch for a selection yields when every call resolves.
FetchResult(cats) ==
    [c \in Range(cats) \cap DOMAIN apiNews |->
        Prefix(apiNews[c], Min(Len(apiNews[c]), MaxArticles))]

\* C10: once no news fetch is in flight (and none has failed), newsData
\* reflects the current selection whenever the news list is shown: its
\* keys are selected categories and it holds the result of the fetch for
\* the current selectedCategories.
C10_NewsReflectsSelection ==
    (fetches = <<>> /\ rejectedFetches = 0 /\ Len(selectedCategories) > 0) =>
       /\ DOMAIN newsData \subseteq Range(selectedCategories)
       /\ newsData = FetchResult(selectedCategories)

====
